---- MODULE Spec2Model ----
(***************************************************************************)
(* Model of the cloud_coverage and spectral_anomaly task models of         *)
(* data_cube_ui: the clear-pixel accumulator (clear_percentage), the       *)
(* per-acquisition metadata (combine_metadata on the dicts produced by     *)
(* metadata_from_dataset, final_metadata_from_dataset, metadata_from_dict),*)
(* the compositor                                                          *)
(* dispatch (get_iterative, get_reverse_time, get_processing_method) and   *)
(* get_or_create_query_from_post.                                          *)
(***************************************************************************)
EXTENDS Integers, Sequences, FiniteSets, TLC

VARIABLES
    intermediate_product,   \* the accumulator threaded through clear_percentage, or None
    chunks,                 \* the chunks folded so far, each as <<num_acq, num_clear>>
    heap,                   \* the inner dicts {'clean_pixels': n}: object -> n
    metadata,               \* the metadata dicts: name -> (acquisition key -> inner dict object)
    initial,                \* heap and metadata as the chunks' partial results were produced
    merged,                 \* the combine_metadata calls made so far, each as <<old, new>>
    task,                   \* the Metadata fields of the task record
    metadata_dict,          \* the last metadata_from_dict call: its dict and self.pixel_count
    objects,                \* the stored Query records, in order of their primary key
    requested,              \* the get_or_create_query_from_post calls answered so far
    response,               \* the outcome of the last get_or_create_query_from_post call
    plan,                   \* the processing configuration last read off a stored task
    calls                   \* the concurrent get_or_create_query_from_post calls in progress

vars == <<intermediate_product, chunks, heap, metadata, initial, merged,
          task, metadata_dict, objects, requested, response, plan, calls>>

accVars == <<intermediate_product, chunks>>

metaVars == <<heap, metadata, initial, merged>>

summaryVars == <<task, metadata_dict>>

queryVars == <<objects, requested, response, plan, calls>>

-----------------------------------------------------------------------------
(* Bounds and the pixel grid                                               *)

MaxChunks == 2      \* chunks folded into one accumulator
MaxSlices == 3      \* time slices of one chunk
MaxTime == 1        \* acquisition keys (timestamps) are 0..MaxTime
MaxCleanPixels == 1 \* clean_pixels of one acquisition in one partial result
MaxAcquisitionTime == 2 \* acquisition keys of a summarised dict are 0..MaxAcquisitionTime
MaxCalls == 2       \* get_or_create_query_from_post calls

Latitudes == {0}
Longitudes == {0, 1}
Pixels == Latitudes \X Longitudes

None == [kind |-> "None"]

-----------------------------------------------------------------------------
(* Floating point division as numpy performs it on integer operands: an   *)
(* exact quotient is represented by its reduced fraction, 0/0 is nan and   *)
(* x/0 is inf; neither raises.                                             *)

RECURSIVE GCD(_, _)
GCD(a, b) == IF b = 0 THEN a ELSE GCD(b, a % b)

NaN == [kind |-> "nan", num |-> 0, den |-> 0]
Inf == [kind |-> "inf", num |-> 1, den |-> 0]
Num(n, d) == [kind |-> "num", num |-> n \div GCD(n, d), den |-> d \div GCD(n, d)]

TrueDivide(a, b) ==
    IF b = 0
    THEN IF a = 0 THEN NaN ELSE Inf
    ELSE Num(a, b)

-----------------------------------------------------------------------------
(* cloud_coverage Query.get_processing_method.clear_percentage             *)

\* a chunk's dataset with T time slices
Dataset(T) == [time |-> [i \in 1..T |-> i]]

\* the boolean clean masks of the shape of a dataset with T time slices
CleanMasks(T) == [1..T -> [Pixels -> BOOLEAN]]

\* clean_mask.astype(np.int8): True is 1, False is 0
AsInt8(b) == IF b THEN 1 ELSE 0

\* np.sum(clean_mask.astype(np.int8), axis=0), the sum over the first t slices
RECURSIVE SumAxis0(_, _)
SumAxis0(clean_mask, t) ==
    IF t = 0
    THEN [p \in Pixels |-> 0]
    ELSE LET rest == SumAxis0(clean_mask, t - 1)
         IN  [p \in Pixels |-> rest[p] + AsInt8(clean_mask[t][p])]

NumClear(clean_mask) == SumAxis0(clean_mask, Len(clean_mask))

\* intermediate_product.total_clear / intermediate_product.total_pixels
Percentage(total_clear, total_pixels) ==
    [p \in Pixels |-> TrueDivide(total_clear[p], total_pixels[p])]

\* the xarray dataset holding total_pixels, total_clear and their quotient
Product(total_pixels, total_clear) ==
    [kind |-> "Dataset",
     total_pixels |-> total_pixels,
     total_clear |-> total_clear,
     clear_percentage |-> Percentage(total_clear, total_pixels)]

\* Update with line 124 assigning instead of adding
Update_OverwritePixels(num_acq, num_clear, product) ==
    IF product = None
    THEN Product([p \in Pixels |-> num_acq], num_clear)
    ELSE Product([p \in Pixels |-> num_acq],
                 [p \in Pixels |-> product.total_clear[p] + num_clear[p]])

\* Update with line 124 left out
Update_KeepPixels(num_acq, num_clear, product) ==
    IF product = None
    THEN Product([p \in Pixels |-> num_acq], num_clear)
    ELSE Product(product.total_pixels,
                 [p \in Pixels |-> product.total_clear[p] + num_clear[p]])

\* Update with line 125 assigning instead of adding
Update_OverwriteClear(num_acq, num_clear, product) ==
    IF product = None
    THEN Product([p \in Pixels |-> num_acq], num_clear)
    ELSE Product([p \in Pixels |-> product.total_pixels[p] + num_acq], num_clear)

\* Update that never takes the intermediate product into account
Update_IgnoreProduct(num_acq, num_clear, product) ==
    Product([p \in Pixels |-> num_acq], num_clear)

\* the body of clear_percentage once num_acq and num_clear are known
Update(num_acq, num_clear, product) ==
    IF product = None
    THEN Product([p \in Pixels |-> num_acq], num_clear)
    ELSE Product([p \in Pixels |-> product.total_pixels[p] + num_acq],
                 [p \in Pixels |-> product.total_clear[p] + num_clear[p]])

clear_percentage(dataset_in, clean_mask, product) ==
    LET num_acq == Len(dataset_in.time)
        num_clear == NumClear(clean_mask)
    IN  Update(num_acq, num_clear, product)

\* the driver folds one more chunk into the accumulator
ClearPercentage ==
    /\ Len(chunks) < MaxChunks
    /\ \E T \in 0..MaxSlices :
         \E clean_mask \in CleanMasks(T) :
            /\ intermediate_product' =
                   clear_percentage(Dataset(T), clean_mask, intermediate_product)
            /\ chunks' = Append(chunks, <<T, NumClear(clean_mask)>>)

InitAccumulator ==
    /\ intermediate_product = None
    /\ chunks = <<>>

-----------------------------------------------------------------------------
(* Metadata.combine_metadata (both applications share the code)            *)

Times == 0..MaxTime
DictNames == {"a", "b", "c"}

\* the metadata dicts metadata_from_dataset can produce over Times: each key
\* maps to an inner dict of its own holding a count
MetadataValues ==
    UNION {[ks -> 0..MaxCleanPixels] : ks \in SUBSET Times}

\* the inner dict created for key k of dict d
Cell(d, k) == <<d, k>>

\* f with f[k] = v inserted or replaced
Put(f, k, v) == [x \in (DOMAIN f) \cup {k} |-> IF x = k THEN v ELSE f[x]]

\* the key -> clean_pixels mapping of dict d in state st
View(st, d) ==
    [k \in DOMAIN st.metadata[d] |-> st.heap[st.metadata[d][k]]]

\* the loop body with the `continue` of line 199 left out
CombineKey_NoContinue(st, old, new, key) ==
    IF key \in DOMAIN st.metadata[old]
    THEN LET added == [st.heap EXCEPT ![st.metadata[old][key]] =
                           @ + st.heap[st.metadata[new][key]]]
         IN  [heap |-> added,
              metadata |-> [st.metadata EXCEPT ![old] = Put(@, key, st.metadata[new][key])]]
    ELSE [heap |-> st.heap,
          metadata |-> [st.metadata EXCEPT ![old] = Put(@, key, st.metadata[new][key])]]

\* one iteration of `for key in new`: add to the inner dict old already has,
\* else make old[key] the very inner dict of new (no copy)
CombineKey(st, old, new, key) ==
    IF key \in DOMAIN st.metadata[old]
    THEN [heap |-> [st.heap EXCEPT ![st.metadata[old][key]] =
                        @ + st.heap[st.metadata[new][key]]],
          metadata |-> st.metadata]
    ELSE [heap |-> st.heap,
          metadata |-> [st.metadata EXCEPT ![old] = Put(@, key, st.metadata[new][key])]]

\* `for key in new` over the keys not yet visited
RECURSIVE CombineLoop(_, _, _, _)
CombineLoop(st, old, new, keys) ==
    IF keys = {}
    THEN st
    ELSE LET key == CHOOSE k \in keys : \A other \in keys : k <= other
         IN  CombineLoop(CombineKey(st, old, new, key), old, new, keys \ {key})

\* combine_metadata(old, new): the state it leaves; it returns old
combine_metadata(st, old, new) ==
    CombineLoop(st, old, new, DOMAIN st.metadata[new])

\* the dicts already merged into another one
Consumed == {merged[i][2] : i \in 1..Len(merged)}

\* the driver merges one partial result into another
CombineMetadata ==
    /\ Len(merged) < Cardinality(DictNames) - 1
    /\ \E old \in DictNames \ Consumed :
         \E new \in DictNames \ (Consumed \cup {old}) :
            LET st == combine_metadata([heap |-> heap, metadata |-> metadata], old, new)
            IN  /\ heap' = st.heap
                /\ metadata' = st.metadata
                /\ merged' = Append(merged, <<old, new>>)
    /\ UNCHANGED initial

InitMetadata ==
    /\ \E vals \in [DictNames -> MetadataValues] :
         /\ metadata = [d \in DictNames |-> [k \in DOMAIN vals[d] |-> Cell(d, k)]]
         /\ heap = [c \in {Cell(d, k) : d \in DictNames, k \in Times} |->
                       IF c[2] \in DOMAIN vals[c[1]] THEN vals[c[1]][c[2]] ELSE 0]
    /\ initial = [heap |-> heap, metadata |-> metadata]
    /\ merged = <<>>

IdleMetadata ==
    /\ heap = [c \in {} |-> 0]
    /\ metadata = [d \in DictNames |-> [k \in {} |-> 0]]
    /\ initial = [heap |-> heap, metadata |-> metadata]
    /\ merged = <<>>

-----------------------------------------------------------------------------------------------------------------------------------------------------
(* Metadata.final_metadata_from_dataset and Metadata.metadata_from_dict     *)

NoData == -9999

\* (x / y) * 100 on floats: nan and inf stay what they are
Times100(q) == IF q.kind = "num" THEN Num(q.num * 100, q.den) ELSE q

\* the composite rasters: coordinates within the grid, first data variable
Rasters ==
    UNION {[latitude : {lats}, longitude : {lons},
            values : [lats \X lons -> {NoData, 0}]] :
           lats \in SUBSET Latitudes, lons \in SUBSET Longitudes}

\* final_metadata_from_dataset: the three pixel fields
final_metadata_from_dataset(self, dataset) ==
    LET pixel_count == Cardinality(dataset.latitude) * Cardinality(dataset.longitude)
        clean_pixel_count ==
            Cardinality({p \in DOMAIN dataset.values : dataset.values[p] # NoData})
    IN  [self EXCEPT !.pixel_count = pixel_count,
                     !.clean_pixel_count = clean_pixel_count,
                     !.percentage_clean_pixels =
                         Times100(TrueDivide(clean_pixel_count, pixel_count))]

\* the dicts handed to metadata_from_dict: acquisition key -> clean_pixels
AcquisitionTimes == 0..MaxAcquisitionTime

SummaryDicts == UNION {[ks -> 0..MaxCleanPixels] : ks \in SUBSET AcquisitionTimes}

\* date.strftime("%m/%d/%Y"): the calendar day of the timestamp; the model
\* has two timestamps to the day
DayOf(date) == date \div 2

Strftime(date) == [tok |-> "date", day |-> DayOf(date)]

\* str() of an integer count and of a float quotient
StrInt(n) == [tok |-> "int", value |-> n]
StrFloat(q) == [tok |-> "float", value |-> q]

Comma == [tok |-> ","]

\* ",".join(entries), as the sequence of its entries and separators
RECURSIVE Join(_)
Join(entries) ==
    IF Len(entries) = 0 THEN <<>>
    ELSE IF Len(entries) = 1 THEN <<entries[1]>>
    ELSE <<entries[1], Comma>> \o Join(Tail(entries))

\* dates.sort() without reverse=True
RECURSIVE SortAscending(_)
SortAscending(dates) ==
    IF dates = {} THEN <<>>
    ELSE LET first == CHOOSE d \in dates : \A e \in dates : d <= e
         IN  <<first>> \o SortAscending(dates \ {first})

\* dates = list(keys); dates.sort(reverse=True)
RECURSIVE SortReverse(_)
SortReverse(dates) ==
    IF dates = {} THEN <<>>
    ELSE LET first == CHOOSE d \in dates : \A e \in dates : d >= e
         IN  <<first>> \o SortReverse(dates \ {first})

\* metadata_from_dict: the scene counts and the three comma-joined fields
metadata_from_dict(self, dict) ==
    LET dates == SortReverse(DOMAIN dict)
    IN  [self EXCEPT
            !.total_scenes = Len(dates),
            !.scenes_processed = Len(dates),
            !.acquisition_list =
                Join([i \in 1..Len(dates) |-> Strftime(dates[i])]),
            !.clean_pixels_per_acquisition =
                Join([i \in 1..Len(dates) |-> StrInt(dict[dates[i]])]),
            !.clean_pixel_percentages_per_acquisition =
                Join([i \in 1..Len(dates) |->
                         StrFloat(TrueDivide(dict[dates[i]] * 100, self.pixel_count))])]

\* the task record before any metadata is written; the field defaults are
\* those of the base Metadata model
NewTask ==
    [pixel_count |-> 0, clean_pixel_count |-> 0, percentage_clean_pixels |-> Num(0, 1),
     total_scenes |-> 0, scenes_processed |-> 0,
     acquisition_list |-> <<>>, clean_pixels_per_acquisition |-> <<>>,
     clean_pixel_percentages_per_acquisition |-> <<>>,
     finalised |-> FALSE]

FinalMetadataFromDataset ==
    /\ \E dataset \in Rasters :
          task' = [final_metadata_from_dataset(task, dataset) EXCEPT !.finalised = TRUE]
    /\ UNCHANGED metadata_dict

\* the driver writes the per-acquisition lists once pixel_count is known
MetadataFromDict ==
    /\ task.finalised
    /\ \E dict \in SummaryDicts :
          /\ task' = metadata_from_dict(task, dict)
          /\ metadata_dict' = [given |-> TRUE, dict |-> dict,
                               pixel_count |-> task.pixel_count]

IdleSummary ==
    /\ task = NewTask
    /\ metadata_dict = [given |-> FALSE, dict |-> <<>>, pixel_count |-> 0]

-----------------------------------------------------------------------------------------------------------------------------------------------------
(* spectral_anomaly Query: compositor dispatch                             *)

\* the compositor ids with an entry in processing_methods, and one without
KnownCompositors == {"most_recent", "least_recent", "max_ndvi", "min_ndvi", "median_pixel"}
CompositorIds == KnownCompositors \cup {"geometric_median"}

processing_methods ==
    [id \in KnownCompositors |->
        CASE id = "most_recent" -> "create_mosaic"
          [] id = "least_recent" -> "create_mosaic"
          [] id = "max_ndvi" -> "create_max_ndvi_mosaic"
          [] id = "min_ndvi" -> "create_min_ndvi_mosaic"
          [] id = "median_pixel" -> "create_median_mosaic"]

get_iterative(self) == self.compositor # "median_pixel"

get_reverse_time(self) == self.compositor = "most_recent"

\* processing_methods.get(self.compositor.id, create_mosaic)
get_processing_method(self) ==
    IF self.compositor \in DOMAIN processing_methods
    THEN processing_methods[self.compositor]
    ELSE "create_mosaic"

\* what the driver reads off a task before processing it
ProcessingPlan(self) ==
    [processing_method |-> get_processing_method(self),
     reverse_time |-> get_reverse_time(self),
     iterative |-> get_iterative(self)]

-----------------------------------------------------------------------------
(* Query.get_or_create_query_from_post                                     *)

\* the spectral_anomaly strings; cloud_coverage has the same code with the
\* title "Cloud Coverage Query" and a shorter unique_together
DefaultTitle == "Spectral Anomaly Query"
DefaultDescription == "None"

\* the posted forms: title and description may be missing or blank, and the
\* form carries a key that is no field of the model
FormKeys == {"title", "description", "compositor", "csrfmiddlewaretoken"}

FormData ==
    {[k \in ks |-> v[k]] :
        ks \in {s \in SUBSET FormKeys : "compositor" \in s},
        v \in [title : {"", "NDVI anomaly"},
               description : {"", "dry season"},
               compositor : CompositorIds,
               csrfmiddlewaretoken : {"token"}]}

\* cls._meta.get_fields(), as far as the forms reach
ValidQueryFields == {"title", "description", "compositor", "pixel_drill_task"}

\* Meta.unique_together, as far as the forms reach
UniqueTogether == {"title", "description", "compositor"}

\* query_data: title and description defaulted, the model's fields kept
QueryData(form_data) ==
    LET titled == Put(form_data, "title",
                      IF "title" \notin DOMAIN form_data \/ form_data["title"] = ""
                      THEN DefaultTitle ELSE form_data["title"])
        described == Put(titled, "description",
                         IF "description" \notin DOMAIN form_data
                               \/ form_data["description"] = ""
                         THEN DefaultDescription ELSE form_data["description"])
    IN  [key \in ValidQueryFields \cap DOMAIN described |-> described[key]]

\* cls(pixel_drill_task=pixel_drill, **query_data)
NewQuery(pixel_drill, query_data) ==
    [pixel_drill_task |-> pixel_drill,
     title |-> query_data["title"],
     description |-> query_data["description"],
     compositor |-> query_data["compositor"]]

\* the primary keys cls.objects.get(pixel_drill_task=pixel_drill, **query_data) matches
Matching(objs, pixel_drill, query_data) ==
    {pk \in 1..Len(objs) :
        /\ objs[pk].pixel_drill_task = pixel_drill
        /\ \A key \in DOMAIN query_data : objs[pk][key] = query_data[key]}

\* query.save() meets a stored record with the same unique_together fields
ViolatesUnique(objs, query) ==
    \E pk \in 1..Len(objs) : \A f \in UniqueTogether : objs[pk][f] = query[f]

\* the try/except: the lookup, and on DoesNotExist the save
Outcome(objs, pixel_drill, query_data) ==
    LET found == Matching(objs, pixel_drill, query_data)
        query == NewQuery(pixel_drill, query_data)
    IN  IF Cardinality(found) = 1
        THEN [outcome |-> "returned", query |-> CHOOSE pk \in found : TRUE,
              created |-> FALSE, objects |-> objs]
        ELSE IF Cardinality(found) > 1
        THEN [outcome |-> "MultipleObjectsReturned", query |-> 0,
              created |-> FALSE, objects |-> objs]
        ELSE IF ViolatesUnique(objs, query)
        THEN [outcome |-> "IntegrityError", query |-> 0,
              created |-> FALSE, objects |-> objs]
        ELSE [outcome |-> "returned", query |-> Len(objs) + 1,
              created |-> TRUE, objects |-> Append(objs, query)]

get_or_create_query_from_post(objs, form_data, pixel_drill) ==
    Outcome(objs, pixel_drill, QueryData(form_data))

\* the request a call amounts to
Request(form_data, pixel_drill) ==
    [query_data |-> QueryData(form_data), pixel_drill |-> pixel_drill]

GetOrCreateQueryFromPost ==
    /\ Cardinality(requested) < MaxCalls
    /\ \E form_data \in FormData, pixel_drill \in BOOLEAN :
          LET res == get_or_create_query_from_post(objects, form_data, pixel_drill)
              req == Request(form_data, pixel_drill)
          IN  /\ objects' = res.objects
              /\ response' = [called |-> TRUE,
                              request |-> req,
                              first |-> \A r \in requested : r.request # req,
                              stored_before |-> Len(objects),
                              outcome |-> res.outcome,
                              query |-> res.query,
                              created |-> res.created]
              /\ requested' = requested \cup
                    {[request |-> req, call |-> Cardinality(requested) + 1,
                      query |-> res.query]}
    /\ UNCHANGED <<plan, calls>>

\* the driver reads the processing configuration of a stored task
PlanProcessing ==
    /\ \E pk \in 1..Len(objects) :
          plan' = [made |-> TRUE, query |-> pk, compositor |-> objects[pk].compositor,
                   config |-> ProcessingPlan(objects[pk])]
    /\ UNCHANGED <<objects, requested, response, calls>>

NoRequest == [query_data |-> <<>>, pixel_drill |-> FALSE]

\* the request handlers that may run get_or_create_query_from_post at once
Callers == {"request1", "request2"}

NoCalls == [c \in {} |-> 0]

\* a call before its first statement
StartedCall(form_data, pixel_drill) ==
    [pc |-> "lookup", form_data |-> form_data, pixel_drill |-> pixel_drill,
     outcome |-> "none", query |-> 0, created |-> FALSE]

\* the try block of caller c: cls.objects.get(...) and, on a hit, the return
Lookup(c) ==
    /\ c \in DOMAIN calls
    /\ calls[c].pc = "lookup"
    /\ LET found == Matching(objects, calls[c].pixel_drill, QueryData(calls[c].form_data))
       IN  calls' = [calls EXCEPT ![c] =
                IF Cardinality(found) = 1
                THEN [@ EXCEPT !.pc = "done", !.outcome = "returned",
                               !.query = CHOOSE pk \in found : TRUE]
                ELSE IF Cardinality(found) > 1
                THEN [@ EXCEPT !.pc = "done", !.outcome = "MultipleObjectsReturned"]
                ELSE [@ EXCEPT !.pc = "save"]]
    /\ UNCHANGED <<objects, requested, response, plan>>

\* the except block of caller c: cls(...), query.save() and the return
Save(c) ==
    /\ c \in DOMAIN calls
    /\ calls[c].pc = "save"
    /\ LET query == NewQuery(calls[c].pixel_drill, QueryData(calls[c].form_data))
       IN  IF ViolatesUnique(objects, query)
           THEN /\ calls' = [calls EXCEPT ![c] =
                        [@ EXCEPT !.pc = "done", !.outcome = "IntegrityError"]]
                /\ UNCHANGED objects
           ELSE /\ objects' = Append(objects, query)
                /\ calls' = [calls EXCEPT ![c] =
                        [@ EXCEPT !.pc = "done", !.outcome = "returned",
                                  !.query = Len(objects) + 1, !.created = TRUE]]
    /\ UNCHANGED <<requested, response, plan>>

IdleQuery ==
    /\ calls = NoCalls
    /\ objects = <<>>
    /\ requested = {}
    /\ response = [called |-> FALSE, request |-> NoRequest, first |-> FALSE,
                   stored_before |-> 0, outcome |-> "none", query |-> 0,
                   created |-> FALSE]
    /\ plan = [made |-> FALSE, query |-> 0, compositor |-> "none",
               config |-> [processing_method |-> "none", reverse_time |-> FALSE,
                           iterative |-> FALSE]]

-----------------------------------------------------------------------------
(* Specifications                                                          *)

IdleAccumulator == InitAccumulator

Init == InitAccumulator /\ IdleMetadata /\ IdleSummary /\ IdleQuery

Next == ClearPercentage /\ UNCHANGED <<metaVars, summaryVars, queryVars>>

Spec == Init /\ [][Next]_vars

InitCombine == IdleAccumulator /\ InitMetadata /\ IdleSummary /\ IdleQuery

NextCombine == CombineMetadata /\ UNCHANGED <<accVars, summaryVars, queryVars>>

SpecCombine == InitCombine /\ [][NextCombine]_vars

InitSummary == IdleAccumulator /\ IdleMetadata /\ IdleSummary /\ IdleQuery

NextSummary ==
    \/ FinalMetadataFromDataset /\ UNCHANGED <<accVars, metaVars, queryVars>>
    \/ MetadataFromDict /\ UNCHANGED <<accVars, metaVars, queryVars>>

SpecSummary == InitSummary /\ [][NextSummary]_vars

InitQuery == IdleAccumulator /\ IdleMetadata /\ IdleSummary /\ IdleQuery

NextQuery ==
    \/ GetOrCreateQueryFromPost /\ UNCHANGED <<accVars, metaVars, summaryVars>>
    \/ PlanProcessing /\ UNCHANGED <<accVars, metaVars, summaryVars>>

SpecQuery == InitQuery /\ [][NextQuery]_vars

\* two handlers receive the same form and flag at once, on an empty store
InitConcurrent ==
    /\ IdleAccumulator /\ IdleMetadata /\ IdleSummary
    /\ objects = <<>>
    /\ requested = {}
    /\ response = [called |-> FALSE, request |-> NoRequest, first |-> FALSE,
                   stored_before |-> 0, outcome |-> "none", query |-> 0,
                   created |-> FALSE]
    /\ plan = [made |-> FALSE, query |-> 0, compositor |-> "none",
               config |-> [processing_method |-> "none", reverse_time |-> FALSE,
                           iterative |-> FALSE]]
    /\ \E form_data \in FormData, pixel_drill \in BOOLEAN :
          calls = [c \in Callers |-> StartedCall(form_data, pixel_drill)]

NextConcurrent ==
    \/ \E c \in Callers : Lookup(c) /\ UNCHANGED <<accVars, metaVars, summaryVars>>
    \/ \E c \in Callers : Save(c) /\ UNCHANGED <<accVars, metaVars, summaryVars>>

SpecConcurrent == InitConcurrent /\ [][NextConcurrent]_vars

-----------------------------------------------------------------------------
(* Properties of the clear-pixel accumulator                                *)

\* the accumulator after folding chunks cs in the order given by `order`
RECURSIVE FoldChunks(_, _, _)
FoldChunks(cs, order, n) ==
    IF n = 0
    THEN None
    ELSE Update(cs[order[n]][1], cs[order[n]][2], FoldChunks(cs, order, n - 1))

RECURSIVE SumAcq(_, _)
SumAcq(cs, n) == IF n = 0 THEN 0 ELSE SumAcq(cs, n - 1) + cs[n][1]

RECURSIVE SumClear(_, _, _)
SumClear(cs, n, p) == IF n = 0 THEN 0 ELSE SumClear(cs, n - 1, p) + cs[n][2][p]

\* C1: folding the chunks applied so far in any other order, starting from no
\* prior state, yields the same total_pixels, total_clear and clear_percentage
\* at every pixel as the order in which they were applied.
C1_OrderIndependent ==
    \A order \in Permutations(1..Len(chunks)) :
        FoldChunks(chunks, order, Len(chunks)) = intermediate_product

C1_Witness ==
    /\ Len(chunks) = 2
    /\ chunks[1][1] # chunks[2][1]
    /\ \E p \in Pixels : chunks[1][2][p] # chunks[2][2][p]
    /\ intermediate_product # None

\* C2: after every update, 0 <= total_clear <= total_pixels at every pixel.
C2_ClearWithinTotal ==
    intermediate_product # None =>
        \A p \in Pixels :
            /\ 0 <= intermediate_product.total_clear[p]
            /\ intermediate_product.total_clear[p] <= intermediate_product.total_pixels[p]

C2_Witness ==
    /\ Len(chunks) = 2
    /\ intermediate_product # None
    /\ \E p \in Pixels :
          /\ 0 < intermediate_product.total_clear[p]
          /\ intermediate_product.total_clear[p] < intermediate_product.total_pixels[p]
    /\ \E p \in Pixels :
          intermediate_product.total_clear[p] = intermediate_product.total_pixels[p]

\* C3: total_pixels is the sum of the chunks' numbers of time slices,
\* total_clear the sum of the chunks' clear counts at the pixel, and
\* clear_percentage their quotient (n/d with n * total_pixels = d * total_clear
\* wherever total_pixels is not zero).
C3_TotalsAreSums ==
    intermediate_product # None =>
        \A p \in Pixels :
            /\ intermediate_product.total_pixels[p] = SumAcq(chunks, Len(chunks))
            /\ intermediate_product.total_clear[p] = SumClear(chunks, Len(chunks), p)
            /\ intermediate_product.total_pixels[p] # 0 =>
                  /\ intermediate_product.clear_percentage[p].kind = "num"
                  /\ intermediate_product.clear_percentage[p].num
                        * intermediate_product.total_pixels[p]
                     = intermediate_product.clear_percentage[p].den
                        * intermediate_product.total_clear[p]

\* three acquisitions all clear at (0,0), then two acquisitions, one clear
C3_Witness ==
    /\ Len(chunks) = 2
    /\ chunks[1][1] = 3 /\ chunks[1][2][<<0, 0>>] = 3
    /\ chunks[2][1] = 2 /\ chunks[2][2][<<0, 0>>] = 1
    /\ intermediate_product.total_pixels[<<0, 0>>] = 5
    /\ intermediate_product.total_clear[<<0, 0>>] = 4
    /\ intermediate_product.clear_percentage[<<0, 0>>] = [kind |-> "num", num |-> 4, den |-> 5]

\* C4: a percentage computed with a zero denominator is 0, never an error or
\* an undefined value (stated for clear_percentage where total_pixels is 0).
C4_ZeroDenominatorIsZero ==
    intermediate_product # None =>
        \A p \in Pixels :
            intermediate_product.total_pixels[p] = 0 =>
                intermediate_product.clear_percentage[p] = [kind |-> "num", num |-> 0, den |-> 1]

\* C5: an empty chunk (no time slices) applied to an existing accumulator
\* leaves total_pixels, total_clear and clear_percentage as they were.
C5_EmptyChunkChangesNothing ==
    [][(/\ intermediate_product # None
        /\ Len(chunks') = Len(chunks) + 1
        /\ chunks'[Len(chunks')][1] = 0)
       => intermediate_product' = intermediate_product]_vars

C5_Witness ==
    /\ Len(chunks) = 2
    /\ chunks[1][1] > 0
    /\ chunks[2][1] = 0
    /\ \E p \in Pixels : intermediate_product.total_clear[p] > 0

-----------------------------------------------------------------------------
(* Properties of combine_metadata                                          *)

Current == [heap |-> heap, metadata |-> metadata]

\* the count a mapping holds for key k, 0 when it has no such key
CountOf(m, k) == IF k \in DOMAIN m THEN m[k] ELSE 0

\* m is the union of the keys of m1 and m2 with their counts added
IsSumOf(m, m1, m2) ==
    /\ DOMAIN m = (DOMAIN m1) \cup (DOMAIN m2)
    /\ \A k \in DOMAIN m : m[k] = CountOf(m1, k) + CountOf(m2, k)

\* combine(x, y) = combine(y, x) = the key-wise sum, for the one merge made
CombineCommutes ==
    Len(merged) = 1 =>
        LET x == merged[1][1]
            y == merged[1][2]
        IN  /\ IsSumOf(View(Current, x), View(initial, x), View(initial, y))
            /\ View(Current, x) = View(combine_metadata(initial, y, x), y)

\* combine(combine(x, y), z) = combine(x, combine(y, z)), whichever of the
\* two groupings the two merges made
CombineAssociates ==
    Len(merged) = 2 =>
        IF merged[2][1] = merged[1][1]
        THEN LET x == merged[1][1]
                 y == merged[1][2]
                 z == merged[2][2]
             IN  View(Current, x) =
                     View(combine_metadata(combine_metadata(initial, y, z), x, y), x)
        ELSE LET x == merged[2][1]
                 y == merged[1][1]
                 z == merged[1][2]
             IN  View(Current, x) =
                     View(combine_metadata(combine_metadata(initial, x, y), x, z), x)

\* C6 (as amended): on dicts that are separate objects, combine_metadata is
\* commutative and associative on the key -> clean_pixels mapping (the union
\* of the keys, the sum of the counts), and combine(old, new) equals old
\* exactly when every key of new is a key of old and has clean_pixels 0 in new.
C6_CombineAlgebra ==
    /\ CombineCommutes
    /\ CombineAssociates
    /\ Len(merged) = 1 =>
          LET old == merged[1][1]
              new == merged[1][2]
          IN  (View(Current, old) = View(initial, old))
                 <=> \A k \in DOMAIN View(initial, new) :
                        /\ k \in DOMAIN View(initial, old)
                        /\ View(initial, new)[k] = 0

\* combine(a, b) left a unchanged although b is not empty; combine(., c) then
\* added to a key of a and inserted a key of c
C6_Witness ==
    /\ merged = <<<<"a", "b">>, <<"a", "c">>>>
    /\ View(initial, "b") # <<>>
    /\ \A k \in DOMAIN View(initial, "b") :
          k \in DOMAIN View(initial, "a") /\ View(initial, "b")[k] = 0
    /\ \E k \in DOMAIN View(initial, "c") :
          k \in DOMAIN View(initial, "a") /\ View(initial, "c")[k] > 0
    /\ \E k \in DOMAIN View(initial, "c") : k \notin DOMAIN View(initial, "a")
    /\ \E k \in DOMAIN View(initial, "a") : View(initial, "a")[k] > 0

\* C6 (as stated): commutative, associative, and combine(old, new) equals old
\* only when new is empty.
C6_EqualsOldOnlyWhenNewEmpty ==
    /\ CombineCommutes
    /\ CombineAssociates
    /\ Len(merged) = 1 =>
          LET old == merged[1][1]
              new == merged[1][2]
          IN  (View(Current, old) = View(initial, old))
                 => DOMAIN View(initial, new) = {}

-----------------------------------------------------------------------------
(* Properties of metadata_from_dict                                        *)

\* the key of dict with exactly i - 1 later keys
KthLatest(dict, i) ==
    CHOOSE k \in DOMAIN dict :
        Cardinality({j \in DOMAIN dict : j > k}) = i - 1

\* field is n entries separated by n - 1 commas
HasEntries(field, n) ==
    /\ Len(field) = IF n = 0 THEN 0 ELSE 2 * n - 1
    /\ \A j \in 1..Len(field) : (field[j] = Comma) <=> (j % 2 = 0)

EntryAt(field, i) == field[2 * i - 1]

\* C9: after metadata_from_dict the three comma-joined fields have one entry
\* per acquisition key, entry i of each is that of the key with i - 1 later
\* keys (timestamps strictly descending, the lists index-aligned), and
\* total_scenes and scenes_processed are the number of keys.
C9_ListsAlignedDescending ==
    metadata_dict.given =>
        LET dict == metadata_dict.dict
            n == Cardinality(DOMAIN dict)
        IN  /\ task.total_scenes = n
            /\ task.scenes_processed = n
            /\ HasEntries(task.acquisition_list, n)
            /\ HasEntries(task.clean_pixels_per_acquisition, n)
            /\ HasEntries(task.clean_pixel_percentages_per_acquisition, n)
            /\ \A i \in 1..n :
                  LET date == KthLatest(dict, i)
                  IN  /\ EntryAt(task.acquisition_list, i) = Strftime(date)
                      /\ EntryAt(task.clean_pixels_per_acquisition, i) = StrInt(dict[date])
                      /\ \/ /\ metadata_dict.pixel_count = 0
                            /\ EntryAt(task.clean_pixel_percentages_per_acquisition, i).value.kind
                                  \in {"nan", "inf"}
                         \/ /\ metadata_dict.pixel_count > 0
                            /\ EntryAt(task.clean_pixel_percentages_per_acquisition, i).value.kind
                                  = "num"
                            /\ EntryAt(task.clean_pixel_percentages_per_acquisition, i).value.num
                                  * metadata_dict.pixel_count
                               = EntryAt(task.clean_pixel_percentages_per_acquisition, i).value.den
                                  * dict[date] * 100

\* three acquisitions, two of them on one day, with different counts
C9_Witness ==
    /\ metadata_dict.given
    /\ DOMAIN metadata_dict.dict = {0, 1, 2}
    /\ metadata_dict.dict[2] # metadata_dict.dict[0]
    /\ metadata_dict.pixel_count = 2
    /\ task.total_scenes = 3
    /\ task.acquisition_list =
          <<Strftime(2), Comma, Strftime(1), Comma, Strftime(0)>>
    /\ Strftime(1) = Strftime(0)
    /\ task.clean_pixels_per_acquisition[1] = StrInt(metadata_dict.dict[2])

-----------------------------------------------------------------------------
(* Properties of the compositor dispatch                                   *)

\* C7: a task whose compositor id has no entry in processing_methods falls
\* back to most_recent: it gets the reduction of most_recent and is processed
\* as a most_recent composite (the same reduction, time order and iteration).
C7_UnknownFallsBackToMostRecent ==
    (plan.made /\ plan.compositor \notin KnownCompositors) =>
        /\ plan.config.processing_method = processing_methods["most_recent"]
        /\ plan.config = ProcessingPlan([compositor |-> "most_recent"])

\* the compositing behaviour get_processing_method selects for an id: that of
\* the id's own entry, and for an id without an entry the fallback, most_recent
SelectedBehaviour(id) ==
    IF id \in DOMAIN processing_methods THEN id ELSE "most_recent"

\* C8: for every compositor id, with or without an entry, get_reverse_time()
\* is true exactly when the selected compositing behaviour is most_recent, and
\* get_iterative() is false exactly when the selected reduction is the median
\* reduction; no task pairs a most_recent composite with non-reversed time.
C8_OrderMatchesMode ==
    plan.made =>
        /\ plan.config.reverse_time <=> (SelectedBehaviour(plan.compositor) = "most_recent")
        /\ (~plan.config.iterative)
              <=> (plan.config.processing_method = processing_methods["median_pixel"])

-----------------------------------------------------------------------------
(* Properties of get_or_create_query_from_post                             *)

\* C10: the first call with a parameter set and pixel_drill flag persists one
\* record and returns it with created = True; every later call with the same
\* parameters returns that stored record with created = False and stores
\* nothing; the store never holds two records with identical parameters.
C10_GetOrCreate ==
    /\ response.called =>
          /\ response.outcome = "returned"
          /\ response.first =>
                /\ response.created
                /\ Len(objects) = response.stored_before + 1
                /\ response.query = Len(objects)
                /\ objects[response.query] =
                      NewQuery(response.request.pixel_drill, response.request.query_data)
          /\ ~response.first =>
                /\ ~response.created
                /\ Len(objects) = response.stored_before
                /\ \A r \in requested :
                      r.request = response.request => r.query = response.query
    /\ \A i, j \in 1..Len(objects) : i # j => objects[i] # objects[j]

-----------------------------------------------------------------------------
(* Frame of combine_metadata                                               *)

\* the dicts passed as old in some combine_metadata call
UsedAsOld == {merged[i][1] : i \in 1..Len(merged)}

\* C12: combine_metadata(old, new) never changes the contents of new, neither
\* during the call nor through a later combine_metadata call on the returned
\* old: a dict only ever passed as new still holds its original counts.
C12_NewUnchanged ==
    \A i \in 1..Len(merged) :
        merged[i][2] \notin UsedAsOld =>
            View(Current, merged[i][2]) = View(initial, merged[i][2])

-----------------------------------------------------------------------------
(* Concurrent get_or_create_query_from_post                                *)

\* C11: when two concurrent calls with identical parameters have both ended,
\* at most one returned created = True, exactly one record is stored, and
\* neither ended in an error.
C11_ConcurrentGetOrCreate ==
    (\A c \in Callers : calls[c].pc = "done") =>
        /\ Cardinality({c \in Callers : calls[c].created}) <= 1
        /\ Len(objects) = 1
        /\ \A c \in Callers : calls[c].outcome = "returned"

====
